---- MODULE Spec2Model ----
(***************************************************************************)
(* Net-Trim MNIST models.                                                  *)
(*                                                                         *)
(* BasicLenetModel (src/mnist_lenet/BasicLenet.py) and                     *)
(* PrunedFCSoftmaxModel (src/mnist_fc/PrunedFCnet.py) as a state machine:  *)
(* the fields of one model instance, the contents of the computation graph *)
(* the instance builds, the state of the engine session that runs it, and  *)
(* one action per public method.  A method that raises part-way keeps the  *)
(* assignments it made before the exception.                               *)
(*                                                                         *)
(* The tensor engine is outside the repository.  Of it the model keeps     *)
(* what the methods rely on: an operation or a feed key belongs to one     *)
(* graph and a session runs only its own graph's; a variable must be       *)
(* initialized before it is read; the initializer operation covers the     *)
(* variables that exist when it is created; conv2d and max_pool take a     *)
(* 4-D signal and matmul a 2-D one; None is not a tensor.  Numbers are     *)
(* integers standing for hundredths (0.1 is 10, keep-probability 1.0 is    *)
(* 100).                                                                   *)
(***************************************************************************)
EXTENDS Integers, Sequences, FiniteSets, TLC

VARIABLES
    cls,            \* class of the instance: "lenet" or "pruned"
    graph,          \* self._graph: 0 is None, else the graph's number
    layer_types,    \* self._layer_types
    nn_weights,     \* self._nn_weights: the weight variables
    nn_biases,      \* self._nn_biases: the bias variables
    fw_signals,     \* self._fw_signals
    logit,          \* self._logit
    output,         \* self._output
    loss,           \* self._loss
    accuracy,       \* self._accuracy
    layers,         \* the layer operations of the current graph
    nCtr,           \* train_counter variables created in the current graph
    trainOp,        \* self._trainOp
    learning_rate,  \* self._learning_rate
    initializer,    \* self._initializer
    sess,           \* self._sess and the variable values it holds
    ret,            \* the last call: its name, arguments, outcome, value
    attached,       \* history: create_optimizer has completed
    initialized,    \* history: initialize() has run
    nTrain,         \* history: optimizer steps run since the last initialize()
    built           \* history: the last network construction

vars == <<cls, graph, layer_types, nn_weights, nn_biases, fw_signals, logit,
          output, loss, accuracy, layers, nCtr, trainOp, learning_rate,
          initializer, sess, ret, attached, initialized, nTrain, built>>

(***************************************************************************)
(* Bounds of the model.                                                    *)
(***************************************************************************)
MaxLayers == 3
MaxGraphs == 2
MaxOptimizers == 2
MaxSteps == 2
MaxDrift == 1
MaxBatch == 2
MaxRegs == 1
MaxMasked == 2
Classes == 2

(***************************************************************************)
(* Program constants.                                                      *)
(***************************************************************************)
DefaultLearningRate == 1
TruncClip == 2
TruncScale == 10
BiasInit == 10
KeepAll == 100
NumDefaultAlgorithms == 5
ConvRank == 4
FlatRank == 2
ConvExempt == 2

(***************************************************************************)
(* Outcomes of a call.                                                     *)
(***************************************************************************)
Ok == "ok"
TrainNotSet == "ValueError: Training algorithm has not been set."
InitializerNotSet == "ValueError: Initializer has not been set."
NotCreated == "ValueError: The model has not been created and initialized."
UnknownAlgorithm == "ValueError: Unknown training algorithm."
NoneAttribute == "AttributeError: 'NoneType' object has no attribute"
NotIterable == "TypeError: object is not iterable"
NotSubscriptable == "TypeError: 'NoneType' object is not subscriptable"
ListIndex == "IndexError: list index out of range"
NotAModel == "AttributeError: the receiver is not a model instance"
EngineShape == "engine: ValueError: shape rank"
EngineNone == "engine: None values not supported"
EngineGraph == "engine: not an element of this graph"
EngineUninitialized == "engine: FailedPreconditionError: uninitialized value"
EngineEmptyAddN == "engine: ValueError: add_n of an empty list"

(***************************************************************************)
(* Values.                                                                 *)
(***************************************************************************)
None == [kind |-> "None", graph |-> 0, idx |-> 0]
Signal(k, g, n) == [kind |-> k, graph |-> g, idx |-> n]
Variable(g, n, value) == [graph |-> g, layer |-> n, init |-> value]
NoTensor == [graph |-> 0, regs |-> <<>>]
NoTrainOp == [graph |-> 0, ctr |-> 0, alg |-> "None"]
NoInitializer == [graph |-> 0, nCtr |-> 0]
NoSession == [graph |-> 0, ready |-> FALSE, drift |-> 0, ctr |-> <<>>]
FloatRate == [graph |-> 0, ctr |-> 0, rate |-> DefaultLearningRate]
NoBuild == [status |-> "none", n |-> 0, types |-> <<>>, masks |-> "none", biases |-> FALSE]
NoCall == [op |-> "__init__", result |-> Ok, arg |-> <<>>, val |-> <<>>]

Min(a, b) == IF a < b THEN a ELSE b
Max(a, b) == IF a < b THEN b ELSE a

RECURSIVE SeqsUpTo(_, _)
SeqsUpTo(S, n) ==
    IF n = 0 THEN {<<>>}
    ELSE LET shorter == SeqsUpTo(S, n - 1)
         IN  shorter \cup {Append(s, e) : s \in {t \in shorter : Len(t) = n - 1}, e \in S}

SeqsOfLen(S, n) == {s \in SeqsUpTo(S, n) : Len(s) = n}

(***************************************************************************)
(* Arguments: a Python argument is given or left at its default None.      *)
(***************************************************************************)
Absent == [given |-> FALSE, v |-> <<>>]
Given(s) == [given |-> TRUE, v |-> s]

(***************************************************************************)
(* Layer builders.  st is the state of a construction in progress: the     *)
(* rank of the signal x, the lists grown so far, self._logit, the layer    *)
(* operations put in the graph, and the exception raised ("" for none).    *)
(***************************************************************************)
\* A layer operation reads the variables w and b, through the constants mask_w
\* and mask_b when it is masked (<<>>: no mask).
Layer(kind, func, pool, rec, mask_w, mask_b) ==
    [kind |-> kind, func |-> func, pool |-> pool, w |-> rec.ws[Len(rec.ws)],
     b |-> rec.bs[Len(rec.bs)], mask_w |-> mask_w, mask_b |-> mask_b]

\* a list that is carried over from the construction before
CarriedOver(previous) == previous

\* self._nn_weights = [], self._nn_biases = [], self._fw_signals = []
Emptied(previous) == <<>>

Builder(rank, old) ==
    [rank |-> rank, ws |-> Emptied(old.nn_weights), bs |-> Emptied(old.nn_biases),
     fw |-> Emptied(old.fw_signals), logit |-> old.logit, ops |-> <<>>, err |-> ""]

\* lines 31-33, 51-53, 66-68: the three lists grow before the layer's own operations
Recorded(st, g, n, weight, bias) ==
    [st EXCEPT !.fw = Append(@, Signal("x", g, n)),
               !.ws = Append(@, Variable(g, n, weight)),
               !.bs = Append(@, Variable(g, n, bias))]

\* tf.nn.conv2d and tf.nn.max_pool take a 4-D signal
ConvAccepts(rank) == rank = ConvRank

\* tf.matmul with a 2-D weight takes a 2-D signal
MatmulAccepts(rank) == rank = FlatRank

AddConvolutionLayer(st, g, n, weight, bias, pool) ==
    LET rec == Recorded(st, g, n, weight, bias)
    IN  IF ~ConvAccepts(st.rank)
        THEN [rec EXCEPT !.err = EngineShape]
        ELSE [rec EXCEPT !.ops = Append(@, Layer("conv", "relu", pool, rec, <<>>, <<>>))]

\* self._logit = output only under func == 'softmax'
LogitAfter(st, g, n, func) == IF func = "softmax" THEN Signal("logit", g, n) ELSE st.logit

AddFullyConnectedLayer(st, g, n, weight, bias, func) ==
    LET rec == Recorded(st, g, n, weight, bias)
    IN  IF ~MatmulAccepts(st.rank)
        THEN [rec EXCEPT !.err = EngineShape]
        ELSE [rec EXCEPT !.ops = Append(@, Layer("fc", func, 1, rec, <<>>, <<>>)),
                         !.logit = LogitAfter(st, g, n, func)]

AddMaskedFullyConnectedLayer(st, g, n, weight, bias, weight_mask, bias_mask, func) ==
    LET rec == Recorded(st, g, n, weight, bias)
    IN  IF ~MatmulAccepts(st.rank)
        THEN [rec EXCEPT !.err = EngineShape]
        ELSE [rec EXCEPT !.ops = Append(@, Layer("fc", func, 1, rec, weight_mask, bias_mask)),
                         !.logit = LogitAfter(st, g, n, func)]

\* a comparison that is off by one
OutputFuncOffByOne(n, num_layers) == IF n = num_layers - 1 THEN "softmax" ELSE "relu"

\* the activation of layer n of num_layers: n == num_layers - 1 in the source
OutputFunc(n, num_layers) == IF n = num_layers THEN "softmax" ELSE "relu"

\* layer_types[n - 1]: for the first layer Python's index -1 is the last entry
PreviousType(lt, n) == IF n = 1 THEN lt[Len(lt)] ELSE lt[n - 1]

\* One pass of the loop of _create_initialized_network (lines 114-132):
\* initial_weights[n] is read before initial_biases[n], and initial_biases
\* may be None.
LenetLayer(st, g, ws, bs, lt, n) ==
    IF lt[n] \notin {"conv", "fc"} THEN st
    ELSE IF n > Len(ws) THEN [st EXCEPT !.err = ListIndex]
    ELSE IF ~bs.given THEN [st EXCEPT !.err = NotSubscriptable]
    ELSE IF n > Len(bs.v) THEN [st EXCEPT !.err = ListIndex]
    ELSE IF lt[n] = "conv" THEN AddConvolutionLayer(st, g, n, ws[n], bs.v[n], 2)
    ELSE LET flat == IF PreviousType(lt, n) = "conv"
                     THEN [st EXCEPT !.rank = FlatRank] ELSE st
         IN  AddFullyConnectedLayer(flat, g, n, ws[n], bs.v[n], OutputFunc(n, Len(lt)))

\* The signal a layer hands on keeps the rank the layer's operations give it.
RECURSIVE LenetLoop(_, _, _, _, _, _)
LenetLoop(st, g, ws, bs, lt, n) ==
    IF n > Len(lt) \/ st.err # "" THEN st
    ELSE LenetLoop(LenetLayer(st, g, ws, bs, lt, n), g, ws, bs, lt, n + 1)

\* One pass of the loop of _create_masked_network (lines 63-73): the call's
\* arguments are read in order, and initial_biases and bias_masks may be None.
MaskedLayer(st, g, ws, bs, wm, bm, n) ==
    IF ~bs.given THEN [st EXCEPT !.err = NotSubscriptable]
    ELSE IF n > Len(bs.v) THEN [st EXCEPT !.err = ListIndex]
    ELSE IF n > Len(wm.v) THEN [st EXCEPT !.err = ListIndex]
    ELSE IF ~bm.given THEN [st EXCEPT !.err = NotSubscriptable]
    ELSE IF n > Len(bm.v) THEN [st EXCEPT !.err = ListIndex]
    ELSE AddMaskedFullyConnectedLayer(st, g, n, ws[n], bs.v[n], wm.v[n], bm.v[n],
                                      OutputFunc(n, Len(ws)))

RECURSIVE MaskedLoop(_, _, _, _, _, _, _)
MaskedLoop(st, g, ws, bs, wm, bm, n) ==
    IF n > Len(ws) \/ st.err # "" THEN st
    ELSE MaskedLoop(MaskedLayer(st, g, ws, bs, wm, bm, n), g, ws, bs, wm, bm, n + 1)

(***************************************************************************)
(* What a construction leaves in the instance.  old holds the fields as    *)
(* they were; the result holds them as the call leaves them, with the      *)
(* call's outcome.                                                         *)
(***************************************************************************)
Fields ==
    [graph |-> graph, layer_types |-> layer_types, nn_weights |-> nn_weights,
     nn_biases |-> nn_biases, fw_signals |-> fw_signals, logit |-> logit,
     output |-> output, loss |-> loss, accuracy |-> accuracy, layers |-> layers,
     result |-> Ok]

\* lines 134-145 and 75-86: the output, the trace's last two entries, the loss
\* and the accuracy.  The loss of a logit that is None, or that belongs to an
\* earlier graph, is refused by the engine.
Finished(f, st, g) ==
    LET out == Signal("output", g, Len(st.ops))
        traced == [f EXCEPT !.nn_weights = st.ws, !.nn_biases = st.bs,
                            !.layers = st.ops, !.logit = st.logit, !.output = out,
                            !.fw_signals = st.fw \o <<st.logit, out>>]
    IN  IF st.logit = None THEN [traced EXCEPT !.result = EngineNone]
        ELSE IF st.logit.graph # g THEN [traced EXCEPT !.result = EngineGraph]
        ELSE [traced EXCEPT !.loss = [graph |-> g, regs |-> <<>>],
                            !.accuracy = [graph |-> g, regs |-> <<>>]]

\* the exception of a layer builder leaves the loop with what was assigned
Interrupted(f, st) ==
    [f EXCEPT !.nn_weights = st.ws, !.nn_biases = st.bs, !.layers = st.ops,
              !.logit = st.logit, !.fw_signals = st.fw, !.result = st.err]

\* BasicLenetModel._create_initialized_network: list(layer_types) of line 98
\* raises on None before anything is assigned
CreateInitializedNetwork(old, initial_weights, initial_biases, given_types) ==
    LET g == old.graph + 1
        types == given_types.v
        f == [old EXCEPT !.graph = g, !.layer_types = types,
                         !.nn_weights = Emptied(old.nn_weights),
                         !.nn_biases = Emptied(old.nn_biases),
                         !.fw_signals = Emptied(old.fw_signals), !.layers = <<>>]
        st == LenetLoop(Builder(ConvRank, old), g, initial_weights,
                        initial_biases, types, 1)
    IN  IF ~given_types.given THEN [old EXCEPT !.result = NotIterable]
        ELSE IF st.err # "" THEN Interrupted(f, st)
        ELSE Finished(f, st, g)

\* PrunedFCSoftmaxModel._create_masked_network
CreateMaskedNetwork(old, initial_weights, initial_biases, weight_masks, bias_masks) ==
    LET g == old.graph + 1
        emptied == [old EXCEPT !.nn_weights = Emptied(old.nn_weights),
                               !.nn_biases = Emptied(old.nn_biases)]
        f == [emptied EXCEPT !.graph = g, !.fw_signals = Emptied(old.fw_signals),
                             !.layers = <<>>]
        st == MaskedLoop(Builder(FlatRank, old), g, initial_weights.v,
                         initial_biases, weight_masks, bias_masks, 1)
    IN  IF ~initial_weights.given THEN [emptied EXCEPT !.result = NotSubscriptable]
        ELSE IF Len(initial_weights.v) = 0 THEN [emptied EXCEPT !.result = ListIndex]
        ELSE IF st.err # "" THEN Interrupted(f, st)
        ELSE Finished(f, st, g)

(***************************************************************************)
(* The engine session.                                                     *)
(***************************************************************************)
\* tf.Session(graph=self._graph): no variable holds a value yet
NewSession(g) == [graph |-> g, ready |-> FALSE, drift |-> 0, ctr |-> <<>>]

\* sess.run(initializer): every variable the initializer covers takes its
\* initial value, the train counters it covers start at 0
Initialized(s, init) ==
    [s EXCEPT !.ready = TRUE, !.drift = 0, !.ctr = [i \in 1..init.nCtr |-> 0]]

\* self._sess.run(fetch, feed_dict) with the placeholders of the current graph
\* as feed keys: fetchGraph is the graph of the fetched operation (0: None),
\* reads whether it reads the parameters, counter the train counter it reads
SessionRun(fetchGraph, reads, counter) ==
    IF sess = NoSession THEN NoneAttribute
    ELSE IF graph # sess.graph THEN EngineGraph
    ELSE IF fetchGraph = 0 THEN EngineNone
    ELSE IF fetchGraph # sess.graph THEN EngineGraph
    ELSE IF reads /\ ~sess.ready THEN EngineUninitialized
    ELSE IF counter > Len(sess.ctr) THEN EngineUninitialized
    ELSE Ok

\* a step of an optimizer that was not given the train counter as global_step
OptimizerStepNoCounter(s, op, step) == [s EXCEPT !.drift = @ + step]

\* One optimizer step: the engine moves every stored weight and bias (the
\* amount is the engine's; the model keeps one amount for all of them) and adds
\* 1 to the global step of the optimizer.
OptimizerStep(s, op, step) ==
    [s EXCEPT !.drift = @ + step, !.ctr[op.ctr] = @ + 1]

\* the amount of one step: the update leaves the stored values or moves them
StepChoices == {0, 1}

Abs(x) == IF x < 0 THEN -x ELSE x

(***************************************************************************)
(* Tensors are sequences of numbers.                                       *)
(***************************************************************************)
Shifted(t, d) == [i \in DOMAIN t |-> t[i] + d]

\* a product that leaves the mask out
Unmasked(t, mask) == t

\* tf.multiply(w, mask_w): the elementwise product (lines 35-36)
Multiply(t, mask) == [i \in DOMAIN t |-> t[i] * mask[i]]

\* the value of a parameter variable: its initial value, moved by the
\* optimizer steps of the session that runs the graph
Stored(v) == IF sess.graph = v.graph THEN Shifted(v.init, sess.drift) ELSE v.init
StoredWeight(n) == Stored(layers[n].w)
StoredBias(n) == Stored(layers[n].b)

\* w and b as the matrix multiply of layer n uses them
EffectiveWeight(n) ==
    IF layers[n].mask_w = <<>> THEN StoredWeight(n)
    ELSE Multiply(StoredWeight(n), layers[n].mask_w)
EffectiveBias(n) ==
    IF layers[n].mask_b = <<>> THEN StoredBias(n)
    ELSE Multiply(StoredBias(n), layers[n].mask_b)

(***************************************************************************)
(* Accuracy (lines 143-145).                                               *)
(***************************************************************************)
\* tf.argmax(v, 1): the first index of the largest entry
ArgMax(v) ==
    CHOOSE i \in DOMAIN v :
        /\ \A j \in DOMAIN v : v[j] <= v[i]
        /\ \A j \in DOMAIN v : j < i => v[j] < v[i]

\* tf.equal(tf.argmax(self._target, 1), tf.argmax(self._logit, 1))
Matches(target, logits) ==
    [i \in DOMAIN target |-> ArgMax(target[i]) = ArgMax(logits[i])]

RECURSIVE SumCast(_, _)
SumCast(m, n) == IF n = 0 THEN 0 ELSE SumCast(m, n - 1) + (IF m[n] THEN 1 ELSE 0)

\* a sum in place of the mean
ReduceSum(m) == <<SumCast(m, Len(m)), 1>>

\* tf.reduce_mean(tf.cast(matches, tf.float32)): the fraction <<num, den>>;
\* the mean of an empty batch is not a number, <<0, 0>>
ReduceMean(m) == <<SumCast(m, Len(m)), Len(m)>>

Accuracy(target, logits) == ReduceMean(Matches(target, logits))

\* the keep-probability compute_accuracy and get_fw_signals feed (lines 221, 238)
InferenceKeepProb == KeepAll

(***************************************************************************)
(* Regularization weights (add_regulizer, lines 149-167).  An argument is  *)
(* None, a Python float, a Python int or a list.                           *)
(***************************************************************************)
NoWeight == [type |-> "None", s |-> 0, v |-> <<>>]
FloatWeight(x) == [type |-> "float", s |-> x, v |-> <<>>]
IntWeight(x) == [type |-> "int", s |-> x, v |-> <<>>]
ListWeight(l) == [type |-> "list", s |-> 0, v |-> l]

\* [x] * k: k copies of x, none when k <= 0
Repeat(x, k) == [i \in 1..Max(k, 0) |-> x]

\* type(l) is float
IsFloat(l) == l.type = "float"

\* a float spread over every tensor, the first two included
RegWeightsNoExemption(l, num_parameters) ==
    LET d == IF l.type = "None" THEN ListWeight(Repeat(0, num_parameters)) ELSE l
    IN  IF IsFloat(d) THEN ListWeight(Repeat(d.s, num_parameters)) ELSE d

\* lines 151-161: None becomes zeros, a float becomes two zeros and then itself
RegWeights(l, num_parameters) ==
    LET d == IF l.type = "None" THEN ListWeight(Repeat(0, num_parameters)) ELSE l
    IN  IF IsFloat(d)
        THEN ListWeight(Repeat(0, ConvExempt) \o Repeat(d.s, num_parameters - ConvExempt))
        ELSE d

\* zip(self._nn_weights, weights): tensor i with coefficient weights[i], as far
\* as the shorter of the two reaches
Zip(ws, l) == [i \in 1..Min(Len(ws), Len(l)) |-> [w |-> i, s |-> l[i]]]

\* whether lines 164-165 build both sums
SumsBuilt(r) == r \in {Ok, EngineNone, EngineGraph}

\* the outcome of lines 163-167
RegOutcome(w1, w2) ==
    IF graph = 0 THEN NoneAttribute
    ELSE IF w1.type # "list" THEN NotIterable
    ELSE IF Zip(nn_weights, w1.v) = <<>> THEN EngineEmptyAddN
    ELSE IF w2.type # "list" THEN NotIterable
    ELSE IF Zip(nn_weights, w2.v) = <<>> THEN EngineEmptyAddN
    ELSE IF loss.graph = 0 THEN EngineNone
    ELSE IF loss.graph # graph THEN EngineGraph
    ELSE Ok

\* l1_loss + l2_loss: the terms s * tf.norm(w, ord=1) and s * tf.nn.l2_loss(w)
RegTerm(w1, w2) == [l1 |-> Zip(nn_weights, w1.v), l2 |-> Zip(nn_weights, w2.v)]

(***************************************************************************)
(* Training algorithms (create_optimizer, lines 180-191).  A selector is   *)
(* an ordinal or a name.                                                   *)
(***************************************************************************)
Ordinal(n) == [ord |-> n, name |-> ""]
Named(s) == [ord |-> -1, name |-> s]

AlgorithmNames == <<"GD", "RMSProp", "Adam", "AdaGrad", "AdaDelta">>

\* a chain whose else falls back to the default algorithm
AlgorithmWithDefault(sel) ==
    IF sel.ord = 0 \/ sel.name = "GD" THEN "GD"
    ELSE IF sel.ord = 1 \/ sel.name = "RMSProp" THEN "RMSProp"
    ELSE IF sel.ord = 3 \/ sel.name = "AdaGrad" THEN "AdaGrad"
    ELSE IF sel.ord = 4 \/ sel.name = "AdaDelta" THEN "AdaDelta"
    ELSE "Adam"

\* the optimizer the if/elif chain constructs, "" when it reaches the else
Algorithm(sel) ==
    IF sel.ord = 0 \/ sel.name = "GD" THEN "GD"
    ELSE IF sel.ord = 1 \/ sel.name = "RMSProp" THEN "RMSProp"
    ELSE IF sel.ord = 2 \/ sel.name = "Adam" THEN "Adam"
    ELSE IF sel.ord = 3 \/ sel.name = "AdaGrad" THEN "AdaGrad"
    ELSE IF sel.ord = 4 \/ sel.name = "AdaDelta" THEN "AdaDelta"
    ELSE ""

\* optimizer.minimize(self._loss, var_list, global_step): the engine refuses a
\* loss that is None or of another graph, and an empty var_list
MinimizeOutcome ==
    IF loss.graph = 0 THEN EngineNone
    ELSE IF loss.graph # graph THEN EngineGraph
    ELSE IF nn_weights \o nn_biases = <<>> THEN "engine: ValueError: No variables to optimize."
    ELSE Ok

\* the outcome of create_optimizer once the graph is entered
OptimizerOutcome(sel) ==
    IF Algorithm(sel) = "" THEN UnknownAlgorithm ELSE MinimizeOutcome

(***************************************************************************)
(* Actions: one per method call.                                           *)
(***************************************************************************)
Call(op, result, arg, val) == [op |-> op, result |-> result, arg |-> arg, val |-> val]

\* the fields a construction assigns; a new graph holds no train counter
Install(f) ==
    /\ graph' = f.graph
    /\ layer_types' = f.layer_types
    /\ nn_weights' = f.nn_weights
    /\ nn_biases' = f.nn_biases
    /\ fw_signals' = f.fw_signals
    /\ logit' = f.logit
    /\ output' = f.output
    /\ loss' = f.loss
    /\ accuracy' = f.accuracy
    /\ layers' = f.layers
    /\ nCtr' = IF f.graph = graph THEN nCtr ELSE 0

\* the last construction: its outcome, its layer count and kinds, the masks it
\* was given, and whether it was given a bias for every layer
Built(f, n, types, masks, biases) ==
    [status |-> IF f.result = Ok THEN "ok" ELSE "failed", n |-> n, types |-> types,
     masks |-> masks, biases |-> biases.given /\ Len(biases.v) >= n]

DefaultTypes == <<"conv", "conv", "fc", "fc">>

\* st.truncnorm(-2, 2, loc=0, scale=0.1): the values a drawn entry is taken
\* from, the two ends of the distribution's support
TruncNormValues == {-(TruncClip * TruncScale), TruncClip * TruncScale}

\* np.ones(layer_shapes[n][-1]) * 0.1, one per layer
RandomBiases == [n \in 1..Len(DefaultTypes) |-> <<BiasInit>>]

\* BasicLenetModel._create_random_network: sample holds the drawn weights
CreateRandomNetwork(old, sample) ==
    CreateInitializedNetwork(old, sample, Given(RandomBiases), Given(DefaultTypes))

\* BasicLenetModel.create_network
CreateNetwork(initial_weights, initial_biases, types, sample) ==
    /\ cls = "lenet"
    /\ graph < MaxGraphs
    /\ LET f == IF ~initial_weights.given
                THEN CreateRandomNetwork(Fields, sample)
                ELSE CreateInitializedNetwork(Fields, initial_weights.v,
                                              initial_biases, types)
           given == IF initial_weights.given THEN types.v ELSE DefaultTypes
           biases == IF initial_weights.given THEN initial_biases
                     ELSE Given(RandomBiases)
       IN  /\ Install(f)
           /\ ret' = Call("create_network", f.result,
                          [weights |-> initial_weights, biases |-> initial_biases,
                           types |-> types], <<>>)
           /\ built' = Built(f, Len(given), given, "none", biases)
    /\ UNCHANGED <<cls, trainOp, learning_rate, initializer, sess, attached,
                   initialized, nTrain>>

\* BasicFCSoftmaxModel.create_network(initial_weights, initial_biases), line 20:
\* the positional arguments of the call.  The method is taken from the class,
\* not from the instance, so the first of them is its receiver.
BaseCallArguments == <<"initial_weights", "initial_biases">>

BaseReceiver == Head(BaseCallArguments)

\* PrunedFCSoftmaxModel.create_network
PrunedCreateNetwork(initial_weights, initial_biases, weight_masks, bias_masks) ==
    /\ cls = "pruned"
    /\ graph < MaxGraphs
    /\ LET unmasked == [Fields EXCEPT !.result =
                           IF BaseReceiver = "self" THEN Ok ELSE NotAModel]
           f == IF ~weight_masks.given THEN unmasked
                ELSE CreateMaskedNetwork(Fields, initial_weights, initial_biases,
                                         weight_masks, bias_masks)
       IN  /\ Install(f)
           /\ ret' = Call("create_network", f.result,
                          [weights |-> initial_weights, biases |-> initial_biases,
                           masks |-> weight_masks], <<>>)
           /\ built' = Built(f, Len(initial_weights.v), <<>>,
                           IF ~weight_masks.given THEN "none"
                           ELSE IF ~bias_masks.given THEN "weights" ELSE "both",
                           initial_biases)
    /\ UNCHANGED <<cls, trainOp, learning_rate, initializer, sess, attached,
                   initialized, nTrain>>

\* add_regulizer
AddRegulizer(l1_weight, l2_weight) ==
    /\ Len(loss.regs) < MaxRegs
    /\ LET w1 == RegWeights(l1_weight, Len(nn_weights))
           w2 == RegWeights(l2_weight, Len(nn_weights))
           r == RegOutcome(w1, w2)
       IN  /\ loss' = IF r = Ok THEN [loss EXCEPT !.regs = Append(@, RegTerm(w1, w2))]
                      ELSE loss
           /\ ret' = Call("add_regulizer", r, [l1 |-> l1_weight, l2 |-> l2_weight],
                          IF SumsBuilt(r) THEN RegTerm(w1, w2) ELSE <<>>)
    /\ UNCHANGED <<cls, graph, layer_types, nn_weights, nn_biases, fw_signals, logit,
                   output, accuracy, layers, nCtr, trainOp, learning_rate, initializer,
                   sess, attached, initialized, nTrain, built>>

\* the optimizer is attached when every statement of create_optimizer has run
Attaches(sel) == graph # 0 /\ OptimizerOutcome(sel) = Ok

\* create_optimizer: the train counter and the decayed learning rate are
\* created before the selector is looked at
CreateOptimizer(sel) ==
    /\ nCtr < MaxOptimizers
    /\ IF graph = 0
       THEN /\ ret' = Call("create_optimizer", NoneAttribute, sel, <<>>)
            /\ UNCHANGED <<nCtr, learning_rate, trainOp, attached>>
       ELSE /\ nCtr' = nCtr + 1
            /\ learning_rate' = [graph |-> graph, ctr |-> nCtr + 1, rate |-> DefaultLearningRate]
            /\ trainOp' = IF Attaches(sel)
                          THEN [graph |-> graph, ctr |-> nCtr + 1, alg |-> Algorithm(sel)]
                          ELSE trainOp
            /\ attached' = (attached \/ Attaches(sel))
            /\ ret' = Call("create_optimizer", OptimizerOutcome(sel), sel, <<>>)
    /\ UNCHANGED <<cls, graph, layer_types, nn_weights, nn_biases, fw_signals, logit,
                   output, loss, accuracy, layers, initializer, sess, initialized,
                   nTrain, built>>

\* create_initializer
CreateInitializer ==
    /\ IF graph = 0
       THEN /\ ret' = Call("create_initializer", NoneAttribute, <<>>, <<>>)
            /\ UNCHANGED <<initializer, sess, nTrain>>
       ELSE /\ initializer' = [graph |-> graph, nCtr |-> nCtr]
            /\ sess' = NewSession(graph)
            /\ nTrain' = 0
            /\ ret' = Call("create_initializer", Ok, <<>>, <<>>)
    /\ UNCHANGED <<cls, graph, layer_types, nn_weights, nn_biases, fw_signals, logit,
                   output, loss, accuracy, layers, nCtr, trainOp, learning_rate,
                   attached, initialized, built>>

\* initialize
HasInitializer == initializer # NoInitializer

Initialize ==
    /\ IF HasInitializer
       THEN /\ sess' = Initialized(sess, initializer)
            /\ initialized' = TRUE
            /\ nTrain' = 0
            /\ ret' = Call("initialize", Ok, <<>>, <<>>)
       ELSE /\ ret' = Call("initialize", InitializerNotSet, <<>>, <<>>)
            /\ UNCHANGED <<sess, initialized, nTrain>>
    /\ UNCHANGED <<cls, graph, layer_types, nn_weights, nn_biases, fw_signals, logit,
                   output, loss, accuracy, layers, nCtr, trainOp, learning_rate,
                   initializer, attached, built>>

\* compute_accuracy(x, target): logits is what the engine evaluates
\* self._logit to for the batch x, with keep_prob fed as 1.0
AccuracyOutcome == SessionRun(accuracy.graph, TRUE, 0)

ComputeAccuracy(target, logits) ==
    /\ LET r == AccuracyOutcome
       IN  ret' = Call("compute_accuracy", r,
                       [target |-> target, logits |-> logits, keep_prob |-> InferenceKeepProb],
                       IF r = Ok THEN Accuracy(target, logits) ELSE <<>>)
    /\ UNCHANGED <<cls, graph, layer_types, nn_weights, nn_biases, fw_signals, logit,
                   output, loss, accuracy, layers, nCtr, trainOp, learning_rate,
                   initializer, sess, attached, initialized, nTrain, built>>

\* a guard on the session in place of the train operation
HasTrainOpOnSession == sess # NoSession

\* train: self._trainOp is not None
HasTrainOp == trainOp # NoTrainOp

TrainOutcome == IF HasTrainOp THEN SessionRun(trainOp.graph, TRUE, trainOp.ctr) ELSE TrainNotSet

Train(keep_prob, step) ==
    /\ LET r == TrainOutcome
       IN  /\ r = Ok => /\ sess.ctr[trainOp.ctr] < MaxSteps
                        /\ Abs(sess.drift + step) <= MaxDrift
           /\ sess' = IF r = Ok THEN OptimizerStep(sess, trainOp, step) ELSE sess
           /\ nTrain' = IF r = Ok THEN nTrain + 1 ELSE nTrain
           /\ ret' = Call("train", r, [keep_prob |-> keep_prob], <<>>)
    /\ UNCHANGED <<cls, graph, layer_types, nn_weights, nn_biases, fw_signals, logit,
                   output, loss, accuracy, layers, nCtr, trainOp, learning_rate,
                   initializer, attached, initialized, built>>

\* get_fw_signals: self._sess is None
HasSession == sess # NoSession

\* the graph of the fetched list: 0 when an entry is None, another graph's
\* number when an entry belongs to another graph
FetchGraph(sigs) ==
    IF \E i \in DOMAIN sigs : sigs[i] = None THEN 0
    ELSE IF \E i \in DOMAIN sigs : sigs[i].graph # graph
         THEN sigs[CHOOSE i \in DOMAIN sigs : sigs[i].graph # graph].graph
         ELSE graph

\* an empty trace fetches nothing, and the feed keys are still looked up in
\* the session's graph
SignalsOutcome ==
    IF ~HasSession THEN NotCreated
    ELSE IF fw_signals = <<>> THEN SessionRun(graph, FALSE, 0)
    ELSE SessionRun(FetchGraph(fw_signals), Len(fw_signals) > 1, 0)

GetFwSignals ==
    /\ LET r == SignalsOutcome
       IN  ret' = Call("get_fw_signals", r, [keep_prob |-> InferenceKeepProb],
                       IF r = Ok THEN <<Len(fw_signals)>> ELSE <<>>)
    /\ UNCHANGED <<cls, graph, layer_types, nn_weights, nn_biases, fw_signals, logit,
                   output, loss, accuracy, layers, nCtr, trainOp, learning_rate,
                   initializer, sess, attached, initialized, nTrain, built>>

\* __init__ (lines 13-35)
InitOf(c) ==
    /\ cls = c
    /\ graph = 0
    /\ layer_types = <<>>
    /\ nn_weights = <<>>
    /\ nn_biases = <<>>
    /\ fw_signals = <<>>
    /\ logit = None
    /\ output = None
    /\ loss = NoTensor
    /\ accuracy = NoTensor
    /\ layers = <<>>
    /\ nCtr = 0
    /\ trainOp = NoTrainOp
    /\ learning_rate = FloatRate
    /\ initializer = NoInitializer
    /\ sess = NoSession
    /\ ret = NoCall
    /\ attached = FALSE
    /\ initialized = FALSE
    /\ nTrain = 0
    /\ built = NoBuild

(***************************************************************************)
(* The life of a BasicLenetModel: every method, in any order.              *)
(***************************************************************************)
UnitTensor == <<1>>
UnitList(n) == [i \in 1..n |-> UnitTensor]

LifecycleTypes == {<<"conv", "fc">>, <<"conv">>}

Selectors ==
    {Ordinal(2), Named("GD"), Ordinal(NumDefaultAlgorithms), Named("Foo")}

KeepProbs == {50}

OneHot(c, k) == [i \in 1..k |-> IF i = c THEN 1 ELSE 0]

LifecycleBatches == {<<OneHot(1, 2)>>}

Init == InitOf("lenet")

Next ==
    \/ \E lt \in LifecycleTypes :
           CreateNetwork(Given(UnitList(Len(lt))), Given(UnitList(Len(lt))), Given(lt), <<>>)
    \/ AddRegulizer(FloatWeight(1), NoWeight)
    \/ \E sel \in Selectors : CreateOptimizer(sel)
    \/ CreateInitializer
    \/ Initialize
    \/ \E b \in LifecycleBatches : ComputeAccuracy(b, b)
    \/ \E kp \in KeepProbs, step \in StepChoices : Train(kp, step)
    \/ GetFwSignals

Spec == Init /\ [][Next]_vars

(***************************************************************************)
(* Properties of the life cycle.                                           *)
(***************************************************************************)
TrainCall == \E kp \in KeepProbs, step \in StepChoices : Train(kp, step)

\* C1: while create_optimizer has never completed, a call to train fails with
\* 'Training algorithm has not been set.' and leaves the session (weights,
\* biases, train counters) and the parameter lists as they were, whatever other
\* setup calls came before.
C1_TrainBeforeOptimizer ==
    [][(TrainCall /\ ~attached)
          => /\ ret'.result = TrainNotSet
             /\ UNCHANGED <<sess, nn_weights, nn_biases, trainOp, nTrain>>]_vars

\* C1 witness: train was refused on a model that is built and initialized and
\* carries a regularizer, but has no optimizer.
C1_Witness ==
    /\ ret.op = "train"
    /\ ret.result = TrainNotSet
    /\ ~attached
    /\ sess.ready /\ sess.graph = graph
    /\ loss.regs # <<>>

\* C2 (as claimed): get_fw_signals called on a constructed network before
\* initialize() has run fails with
\* 'The model has not been created and initialized.'
C2_SignalsBeforeInitialize ==
    (ret.op = "get_fw_signals" /\ ~initialized /\ built.status = "ok")
        => ret.result = NotCreated

\* the selectors create_optimizer is documented to know
Recognized(sel) == sel.ord \in 0..(NumDefaultAlgorithms - 1) \/
                   \E i \in DOMAIN AlgorithmNames : sel.name = AlgorithmNames[i]

\* what a refused create_optimizer leaves as it was: the train operation, the
\* session, the parameters, and the outcome of compute_accuracy
LeftUsable ==
    /\ UNCHANGED <<trainOp, attached, sess, nn_weights, nn_biases, accuracy, logit,
                   graph, layers>>
    /\ AccuracyOutcome' = AccuracyOutcome

\* C3 (as claimed): in every state, create_optimizer with an unrecognized
\* selector fails with 'Unknown training algorithm.', leaves the train operation
\* as it was, leaves the parameters and the session as they were, and leaves
\* compute_accuracy with the outcome it had.
C3_AlwaysUnknownAlgorithm ==
    [][\A sel \in Selectors :
          (CreateOptimizer(sel) /\ ~Recognized(sel))
             => (ret'.result = UnknownAlgorithm /\ LeftUsable)]_vars

\* C3 (amended): once create_network has made a graph, create_optimizer with an
\* unrecognized selector fails with 'Unknown training algorithm.'; before that
\* it fails on the graph that is None.  Either way the train operation, the
\* parameters and the session are left as they were, and compute_accuracy is
\* left with the outcome it had.
C3_UnknownAlgorithm ==
    [][\A sel \in Selectors :
          (CreateOptimizer(sel) /\ ~Recognized(sel))
             => /\ graph # 0 => ret'.result = UnknownAlgorithm
                /\ graph = 0 => ret'.result = NoneAttribute
                /\ LeftUsable]_vars

\* C3 witness: an unrecognized selector was refused on an initialized model
\* whose accuracy can be computed and whose earlier optimizer is still attached.
C3_Witness ==
    /\ ret.op = "create_optimizer"
    /\ ~Recognized(ret.arg)
    /\ ret.result = UnknownAlgorithm
    /\ AccuracyOutcome = Ok
    /\ HasTrainOp

\* the session can run the train operation: it was created for the current
\* graph, with an initializer made after the optimizer was attached, and
\* initialize() has run
CanTrain ==
    /\ attached
    /\ sess # NoSession
    /\ sess.graph = graph
    /\ trainOp.graph = graph
    /\ sess.ready
    /\ trainOp.ctr <= Len(sess.ctr)

\* C4 (as claimed): in every state with an optimizer attached, train does not
\* fail and advances the optimizer's step counter by exactly 1.
C4_TrainAlwaysSteps ==
    [][(TrainCall /\ attached)
          => /\ ret'.result = Ok
             /\ sess'.ctr[trainOp.ctr] = sess.ctr[trainOp.ctr] + 1]_vars

\* C4 (amended): in every state with an optimizer attached that the session can
\* run, train succeeds and advances the optimizer's step counter by exactly 1,
\* and the counter equals the number of train calls since initialize().
C4_TrainSteps ==
    /\ [](CanTrain => sess.ctr[trainOp.ctr] = nTrain)
    /\ [][(TrainCall /\ CanTrain)
             => /\ ret'.result = Ok
                /\ sess'.ctr[trainOp.ctr] = sess.ctr[trainOp.ctr] + 1
                /\ trainOp' = trainOp]_vars

\* C4 witness: two train calls have run since initialize().
C4_Witness ==
    /\ ret.op = "train"
    /\ ret.result = Ok
    /\ CanTrain
    /\ nTrain = 2
    /\ sess.ctr[trainOp.ctr] = 2

(***************************************************************************)
(* Network assembly: both classes, every layer list up to MaxLayers        *)
(* entries, constructions repeated on the same instance.                   *)
(***************************************************************************)
LayerKinds == {"conv", "fc"}

\* lists with an entry that is neither 'conv' nor 'fc'
OddLists == {<<"conv", "pool">>, <<"conv", "fc", "pool", "fc">>}

TypeLists == SeqsUpTo(LayerKinds, MaxLayers) \cup OddLists

\* the weights _create_random_network may draw: one entry per tensor
RandomSamples == SeqsOfLen({<<v>> : v \in TruncNormValues}, Len(DefaultTypes))

OnesMask == <<1>>
ZeroMask == <<0>>
MaskLists(n) == SeqsOfLen({OnesMask, ZeroMask}, n)

InitBuild == InitOf("lenet") \/ InitOf("pruned")

NextBuild ==
    \/ \E lt \in TypeLists :
           CreateNetwork(Given(UnitList(Len(lt))), Given(UnitList(Len(lt))), Given(lt), <<>>)
    \/ \E sample \in RandomSamples : CreateNetwork(Absent, Absent, Absent, sample)
    \/ \E p \in {<<Absent, Given(<<"conv", "fc">>)>>, <<Given(UnitList(2)), Absent>>} :
           CreateNetwork(Given(UnitList(2)), p[1], p[2], <<>>)
    \/ PrunedCreateNetwork(Given(UnitList(1)), Absent, Given(<<OnesMask>>),
                           Given(<<OnesMask>>))
    \/ \E n \in 0..MaxLayers : \E wm \in MaskLists(n) :
           \E bm \in {Given(wm), Absent} :
               PrunedCreateNetwork(Given(UnitList(n)), Given(UnitList(n)), Given(wm), bm)
    \/ \E w \in {Absent, Given(UnitList(2))} :
           PrunedCreateNetwork(w, w, Absent, Absent)
    \/ CreateInitializer
    \/ Initialize
    \/ GetFwSignals

SpecBuild == InitBuild /\ [][NextBuild]_vars

\* one or more 'conv' followed by one or more 'fc'
ConvThenFc(lt) ==
    /\ Len(lt) >= 2
    /\ lt[1] = "conv"
    /\ lt[Len(lt)] = "fc"
    /\ \A i \in DOMAIN lt : lt[i] \in {"conv", "fc"}
    /\ \A i, j \in DOMAIN lt : (lt[i] = "fc" /\ i < j) => lt[j] = "fc"

OnlyConvFc(lt) == \A i \in DOMAIN lt : lt[i] \in {"conv", "fc"}

\* the graph holds exactly one softmax layer, the last one, every earlier layer
\* is relu, and self._logit is the pre-activation of entry n of the list
SoftmaxLast(n) ==
    /\ layers # <<>>
    /\ Cardinality({i \in DOMAIN layers : layers[i].func = "softmax"}) = 1
    /\ layers[Len(layers)].func = "softmax"
    /\ \A i \in 1..(Len(layers) - 1) : layers[i].func = "relu"
    /\ logit = Signal("logit", graph, n)

\* C6 (as claimed): after assembly from any non-empty list of 'conv'/'fc' kinds
\* (any layer count in the masked model) the network has exactly one softmax
\* layer, the last of the list, with its pre-activation as the logit, and relu
\* before it.
C6_AlwaysSoftmaxLast ==
    (/\ ret.op = "create_network"
     /\ built.n >= 1
     /\ built.biases
     /\ cls = "lenet" => OnlyConvFc(built.types)
     /\ cls = "pruned" => built.masks = "both")
        => SoftmaxLast(built.n)

\* C6 (amended): given a weight and a bias for every layer, assembly completes
\* exactly for the lists made of one or more 'conv' followed by one or more
\* 'fc' (in the masked model: for every layer count >= 1), and the network it
\* completes has exactly one softmax layer, the last of the list, with its
\* pre-activation as the logit, and relu before it.
C6_SoftmaxLast ==
    /\ (cls = "lenet" /\ built.status # "none" /\ built.biases /\ OnlyConvFc(built.types))
          => (built.status = "ok" <=> ConvThenFc(built.types))
    /\ (cls = "pruned" /\ built.masks = "both" /\ built.biases /\ built.n >= 1)
          => built.status = "ok"
    /\ (built.status = "ok" /\ (cls = "lenet" => OnlyConvFc(built.types)))
          => SoftmaxLast(built.n)

\* C6 witness: a three-layer network of each class has been assembled.
C6_Witness ==
    /\ built.status = "ok"
    /\ built.n = 3
    /\ Len(layers) = 3
    /\ layers[3].func = "softmax"
    /\ cls = "lenet" => built.types = <<"conv", "fc", "fc">>

\* the lists hold one entry per layer of the last construction, in order, all
\* of the current graph, and the trace is the L layer inputs, the logit, the output
ListsOfLastConstruction(L) ==
    /\ Len(nn_weights) = L
    /\ Len(nn_biases) = L
    /\ \A i \in 1..L : /\ nn_weights[i].graph = graph /\ nn_weights[i].layer = i
                       /\ nn_biases[i].graph = graph /\ nn_biases[i].layer = i
    /\ Len(fw_signals) = L + 2
    /\ \A i \in 1..L : fw_signals[i] = Signal("x", graph, i)
    /\ fw_signals[L + 1] = Signal("logit", graph, L)
    /\ fw_signals[L + 2] = Signal("output", graph, L)

\* C9 (as claimed): after any construction from a non-empty layer list of length
\* L the weight and bias lists hold L entries and the trace L + 2 entries (the
\* L layer inputs, the final logit, the final output), none from an earlier
\* construction.
C9_AlwaysListsOfLast ==
    (/\ built.status # "none"
     /\ built.n >= 1
     /\ built.biases
     /\ cls = "lenet" => OnlyConvFc(built.types)
     /\ cls = "pruned" => built.masks = "both")
        => ListsOfLastConstruction(built.n)

\* C9 (amended): after any sequence of constructions whose last one completed on
\* a list of 'conv'/'fc' kinds of length L, the lists hold L entries and the
\* trace the L layer inputs, the logit and the output of that construction.
C9_ListsOfLast ==
    (built.status = "ok" /\ (cls = "lenet" => OnlyConvFc(built.types)))
        => ListsOfLastConstruction(built.n)

\* C9 witness: a second construction, shorter than the first, has completed.
C9_Witness ==
    /\ built.status = "ok"
    /\ graph = 2
    /\ built.n = 2
    /\ Len(fw_signals) = 4

\* C10 (as claimed): create_network without weight masks builds the unmasked
\* network on the instance it is called on.
C10_UnmaskedBuilds ==
    (cls = "pruned" /\ ret.op = "create_network" /\ ~ret.arg.masks.given)
        => (ret.result = Ok /\ built.status = "ok" /\ graph # 0)

(***************************************************************************)
(* The masked network under training.  create_optimizer, create_initializer,*)
(* initialize and train of a PrunedFCSoftmaxModel are those it inherits    *)
(* from BasicFCSoftmaxModel, which the two classes' shared life cycle      *)
(* gives the behaviour of BasicLenetModel's.                               *)
(***************************************************************************)
FCCreateOptimizer(sel) == CreateOptimizer(sel)
FCCreateInitializer == CreateInitializer
FCInitialize == Initialize
FCTrain(keep_prob, step) == Train(keep_prob, step)

PairWeight == <<2, -1>>

\* the masks of one layer: nothing silenced, a weight and the bias silenced,
\* every weight silenced
LayerMasks ==
    {[w |-> <<1, 1>>, b |-> <<1>>], [w |-> <<1, 0>>, b |-> <<0>>],
     [w |-> <<0, 0>>, b |-> <<1>>]}

\* networks of n layers: the first layer has any of the masks, the layers
\* after it silence a weight and the bias
MaskedNets(n) ==
    {[weights |-> [i \in 1..n |-> PairWeight], biases |-> UnitList(n),
      weight_masks |-> [i \in 1..n |-> IF i = 1 THEN m.w ELSE <<1, 0>>],
      bias_masks |-> [i \in 1..n |-> IF i = 1 THEN m.b ELSE <<0>>]] : m \in LayerMasks}

InitPruned == InitOf("pruned")

NextPruned ==
    \/ \E n \in 1..MaxMasked : \E net \in MaskedNets(n) :
           PrunedCreateNetwork(Given(net.weights), Given(net.biases),
                               Given(net.weight_masks), Given(net.bias_masks))
    \/ FCCreateOptimizer(Named("Adam"))
    \/ FCCreateInitializer
    \/ FCInitialize
    \/ \E step \in StepChoices : FCTrain(KeepAll, step)

SpecPruned == InitPruned /\ [][NextPruned]_vars

\* the positions of a tensor that a mask silences
ZeroAt(mask, i) == mask[i] = 0

\* C5: in a masked network, at every position where the weight mask (bias mask)
\* is 0 the weight (bias) the forward computation uses is 0, after construction
\* and after every train step, and no train step changes a mask.
C5_MaskPersistence ==
    /\ [](\A n \in DOMAIN layers :
             /\ \A i \in DOMAIN layers[n].mask_w :
                    ZeroAt(layers[n].mask_w, i) => EffectiveWeight(n)[i] = 0
             /\ \A i \in DOMAIN layers[n].mask_b :
                    ZeroAt(layers[n].mask_b, i) => EffectiveBias(n)[i] = 0)
    /\ [][(\E step \in StepChoices : FCTrain(KeepAll, step)) => layers' = layers]_vars

\* C5 witness: two train steps have run on a masked network, and a stored
\* weight at a silenced position is not 0 while the weight used is.
C5_Witness ==
    /\ ret.op = "train"
    /\ ret.result = Ok
    /\ nTrain = 2
    /\ \E n \in DOMAIN layers : \E i \in DOMAIN layers[n].mask_w :
           /\ ZeroAt(layers[n].mask_w, i)
           /\ StoredWeight(n)[i] # 0
           /\ StoredWeight(n)[i] # layers[n].w.init[i]
           /\ EffectiveWeight(n)[i] = 0

(***************************************************************************)
(* Accuracy: batches of up to MaxBatch examples over Classes classes.      *)
(***************************************************************************)
Targets == {OneHot(c, Classes) : c \in 1..Classes}
\* rows of logits: the last class ahead of the others, or all classes level
LogitRows == {OneHot(Classes, Classes), [c \in 1..Classes |-> 0]}
Examples == [target : Targets, logits : LogitRows]
Batches == SeqsUpTo(Examples, MaxBatch)

TargetsOf(batch) == [i \in DOMAIN batch |-> batch[i].target]
LogitsOf(batch) == [i \in DOMAIN batch |-> batch[i].logits]

InitAccuracy == InitOf("lenet")

NextAccuracy ==
    \/ CreateNetwork(Given(UnitList(2)), Given(UnitList(2)), Given(<<"conv", "fc">>), <<>>)
    \/ CreateInitializer
    \/ Initialize
    \/ \E batch \in Batches : ComputeAccuracy(TargetsOf(batch), LogitsOf(batch))

SpecAccuracy == InitAccuracy /\ [][NextAccuracy]_vars

\* the class a one-hot target names, and the class a row of logits predicts:
\* the first of the largest entries
TargetClass(t) == CHOOSE c \in DOMAIN t : t[c] = 1
PredictedClass(v) ==
    CHOOSE c \in DOMAIN v : \A d \in DOMAIN v : v[d] < v[c] \/ (v[d] = v[c] /\ c <= d)

Hits(target, logits) ==
    {i \in DOMAIN target : TargetClass(target[i]) = PredictedClass(logits[i])}

\* C7: compute_accuracy on a non-empty batch feeds keep-probability 1.0 and
\* returns the number of examples whose target class is the predicted class
\* over the number of examples: exactly 1 when every example matches, exactly 0
\* when none does.
C7_AccuracyIsFraction ==
    (ret.op = "compute_accuracy" /\ ret.result = Ok /\ Len(ret.arg.target) > 0)
        => LET hits == Hits(ret.arg.target, ret.arg.logits)
               n == Len(ret.arg.target)
           IN  /\ ret.arg.keep_prob = KeepAll
               /\ ret.val = <<Cardinality(hits), n>>
               /\ hits = 1..n => ret.val[1] = ret.val[2]
               /\ hits = {} => ret.val[1] = 0

\* C7 witness: a batch of two examples of which exactly one matches.
C7_Witness ==
    /\ ret.op = "compute_accuracy"
    /\ ret.result = Ok
    /\ Len(ret.arg.target) = 2
    /\ ret.val = <<1, 2>>

(***************************************************************************)
(* Regularization: lists of 'conv' then 'fc' kinds, every kind of weight.  *)
(***************************************************************************)
\* lists of distinct coefficients, from none to one more than the most tensors
CoefficientLists == {[i \in 1..n |-> i + ConvExempt] : n \in 0..(MaxLayers + 1)}

FullWeights ==
    {NoWeight, FloatWeight(1), IntWeight(1)} \cup {ListWeight(l) : l \in CoefficientLists}

\* one weight of any kind and the other omitted, or two floats
WeightPairs ==
    (FullWeights \X {NoWeight}) \cup ({NoWeight} \X FullWeights)
        \cup {<<FloatWeight(1), FloatWeight(2)>>}

\* 'conv' entries followed by 'fc' entries, up to MaxLayers entries in all
ConvFcLists ==
    {[i \in 1..(a + b) |-> IF i <= a THEN "conv" ELSE "fc"] :
         a \in 1..MaxLayers, b \in 0..MaxLayers} \cap SeqsUpTo(LayerKinds, MaxLayers)

InitReg == InitOf("lenet")

NextReg ==
    \/ \E lt \in ConvFcLists :
           CreateNetwork(Given(UnitList(Len(lt))), Given(UnitList(Len(lt))), Given(lt), <<>>)
    \/ \E p \in WeightPairs : AddRegulizer(p[1], p[2])

SpecReg == InitReg /\ [][NextReg]_vars

\* the coefficient the claim gives tensor i
Coefficient(l, i) ==
    IF l.type = "None" THEN 0
    ELSE IF l.type = "list" THEN l.v[i]
    ELSE IF i <= 2 THEN 0 ELSE l.s

\* the sum over all N tensors of coefficient times norm
ClaimedSum(l, N) == [i \in 1..N |-> [w |-> i, s |-> Coefficient(l, i)]]

\* a weight the claim covers: omitted, a scalar of one of the given types, or a
\* list with one entry per tensor
Covered(l, N, scalars) ==
    l.type = "None" \/ l.type \in scalars \/ (l.type = "list" /\ Len(l.v) = N)

\* add_regulizer on N weight tensors returned, and the term it added to the
\* loss is the claimed sum for both norms
RegularizedAsClaimed(N) ==
    /\ ret.result = Ok
    /\ ret.val = [l1 |-> ClaimedSum(ret.arg.l1, N), l2 |-> ClaimedSum(ret.arg.l2, N)]
    /\ loss.regs # <<>>
    /\ loss.regs[Len(loss.regs)] = ret.val

\* C8 (as claimed): for every N >= 1 and every weight that is omitted, a single
\* scalar or a per-tensor list, add_regulizer gives the first two tensors 0 and
\* the others s (scalar), tensor i list[i] (list), every tensor 0 (omitted), and
\* adds the sum over the N tensors to the loss.
C8_AnyScalar ==
    (/\ ret.op = "add_regulizer"
     /\ Len(nn_weights) >= 1
     /\ Covered(ret.arg.l1, Len(nn_weights), {"float", "int"})
     /\ Covered(ret.arg.l2, Len(nn_weights), {"float", "int"}))
        => RegularizedAsClaimed(Len(nn_weights))

RegCall == \E p \in WeightPairs : AddRegulizer(p[1], p[2])

\* C8 (amended): on a model whose last construction completed (it has N >= 2
\* weight tensors) and for a weight that is omitted, a Python float or a list
\* of N entries, add_regulizer returns and adds to the loss the sum over the N
\* tensors with the first two at 0 and the others at s (float), tensor i at
\* list[i] (list), every tensor at 0 (omitted).  A model holds a single
\* weight tensor only after a construction that failed, and there
\* add_regulizer raises and the loss is left as it was.
C8_FloatScalar ==
    /\ []((/\ ret.op = "add_regulizer"
           /\ built.status = "ok"
           /\ Covered(ret.arg.l1, Len(nn_weights), {"float"})
           /\ Covered(ret.arg.l2, Len(nn_weights), {"float"}))
              => RegularizedAsClaimed(Len(nn_weights)))
    /\ [](built.status = "ok" => Len(nn_weights) >= 2)
    /\ [](Len(nn_weights) = 1 => built.status = "failed")
    /\ [][(RegCall /\ Len(nn_weights) = 1)
             => (ret'.result # Ok /\ loss' = loss)]_vars

\* C8 witness: on a completed network a float was spread over three tensors
\* and added to the loss.
C8_Witness ==
    /\ ret.op = "add_regulizer"
    /\ ret.result = Ok
    /\ built.status = "ok"
    /\ Len(nn_weights) = 3
    /\ ret.arg.l1 = FloatWeight(1)
    /\ ret.val.l1 = <<[w |-> 1, s |-> 0], [w |-> 2, s |-> 0], [w |-> 3, s |-> 1]>>
    /\ loss.regs[Len(loss.regs)] = ret.val

====
